---------------------------- MODULE Spec2Model ----------------------------
(***************************************************************************)
(* Snowflake identifier generator (pyflake).                               *)
(*                                                                         *)
(* The model follows src/main.py: the generator function pyflake_generator *)
(* (a Python generator: its body runs only inside next()), the decoder     *)
(* to_timestamp and the calls PyflakeClient makes on the generator.  The   *)
(* width of the sequence field is the parameter sequence_bits of           *)
(* pyflake_generator in src/src/main.py, which src/main.py fixes to 12.    *)
(* The methods of the PyflakeClient of src/src/main.py (create_generator,  *)
(* destroy_generator, renew_generator, generate) are modelled on the       *)
(* client's attributes.                                                    *)
(***************************************************************************)
EXTENDS Integers, Sequences, FiniteSets, TLC

(***************************************************************************)
(* Bounds of the exploration.                                              *)
(***************************************************************************)
\* callers (threads) that share the generator handles
NumCallers == 2
\* Spec explores the sequence widths 1 and MaxSequenceBits
MaxSequenceBits == 2
\* clock readings range over epoch .. epoch + MaxDelta
MaxDelta == 2
\* the epochs explored are 0 and MaxEpoch
MaxEpoch == 1
\* how many times the wall clock may be set back, where it is followed
MaxRegress == 1
\* how many times a client may drop its generator (destroy, renew)
MaxEra == 2
\* generate_seed is called with 1 .. MaxSeedBits
MaxSeedBits == 16

(***************************************************************************)
(* Python's integer operators: unbounded two's complement.                 *)
(***************************************************************************)
RECURSIVE BitAnd(_, _)
BitAnd(a, b) ==
    IF a = 0 \/ b = 0 THEN 0
    ELSE IF a = -1 THEN b
    ELSE IF b = -1 THEN a
    ELSE 2 * BitAnd(a \div 2, b \div 2) + (a % 2) * (b % 2)

RECURSIVE BitOr(_, _)
BitOr(a, b) ==
    IF a = 0 THEN b
    ELSE IF b = 0 THEN a
    ELSE IF a = -1 \/ b = -1 THEN -1
    ELSE 2 * BitOr(a \div 2, b \div 2) + (IF (a % 2) = 1 \/ (b % 2) = 1 THEN 1 ELSE 0)

RECURSIVE BitXor(_, _)
BitXor(a, b) ==
    IF a = 0 THEN b
    ELSE IF b = 0 THEN a
    ELSE IF a = -1 THEN -b - 1
    ELSE IF b = -1 THEN -a - 1
    ELSE 2 * BitXor(a \div 2, b \div 2) + (((a % 2) + (b % 2)) % 2)

\* a << n
Shl(a, n) == a * 2^n

\* a >> n (arithmetic: rounds towards minus infinity)
Shr(a, n) == a \div 2^n

(***************************************************************************)
(* State.                                                                  *)
(***************************************************************************)
VARIABLES
    epoch,           \* the epoch every generator of the run is built with
    sequence_bits,   \* width of the sequence field
    gstate,          \* per generator handle: "absent", "created", "loop",
                     \* "suspended" (at the yield) or "closed"
    running,         \* per generator: its frame is executing a next() call
    pid,             \* per generator: argument pid
    seed,            \* per generator: argument seed
    last_timestamp,  \* per generator: local last_timestamp
    sequence,        \* per generator: local sequence
    timestamp,       \* per generator: local timestamp (last clock reading)
    slept,           \* per generator: argument of sleep() in the most recent
                     \* cycle of the loop, 0 when that cycle did not sleep
    out,             \* per generator: <<>> or <<the record last yielded>>
    inside,          \* per caller: 0, or the generator whose next() it is in
    ended,           \* observer: <<>> or <<caller, generator and outcome of
                     \* the next() call that ended last>>
    marked,          \* observer: <<>> or <<one issued identifier, picked
                     \* when it was issued>>
    era,             \* per generator handle: how many generators the client
                     \* has replaced under it (renew, destroy)
    clock,           \* the wall clock in milliseconds, in the specifications
                     \* that follow it; the others draw each reading freely
    regress,         \* how many times the wall clock was set back
    rnd,             \* <<>> or <<the last generate_seed call and its outcome>>
    packed,          \* the last two tuples packed by the yield expression
    managed,         \* the attributes of the PyflakeClient of src/src/main.py
    mcall            \* <<>> or <<the last call on that client and its outcome>>

\* the variables that the generator and next() never touch
aux == <<era, clock, regress, rnd, packed, managed, mcall>>

vars == <<epoch, sequence_bits, gstate, running, pid, seed, last_timestamp,
          sequence, timestamp, slept, out, inside, ended, marked, aux>>

\* value of a local that has not been assigned yet
Undefined == -2

Gens == DOMAIN gstate
Callers == DOMAIN inside

(***************************************************************************)
(* pyflake_generator: widths, masks and shifts.                            *)
(***************************************************************************)
pid_bits == 5
seed_bits == 5
DefaultSequenceBits == 12

max_pid == BitXor(-1, Shl(-1, pid_bits))
max_seed == BitXor(-1, Shl(-1, seed_bits))
sequence_mask == BitXor(-1, Shl(-1, sequence_bits))

\* the pid placed one bit too low
pid_shift_overlap == sequence_bits - 1

pid_shift == sequence_bits

\* the seed placed on top of the pid
seed_shift_on_pid == sequence_bits

seed_shift == sequence_bits + pid_bits
timestamp_shift == sequence_bits + pid_bits + seed_bits

\* the two assert statements
FieldsValid(p, s) ==
    /\ p >= 0 /\ p <= max_pid
    /\ s >= 0 /\ s <= max_seed

\* the yield expression with pid and seed in each other's place
SnowflakeSwapped(ts, p, s, sq) ==
    BitOr(BitOr(BitOr(Shl(ts - epoch, timestamp_shift), Shl(p, seed_shift)),
                Shl(s, pid_shift)),
          sq)

\* the value of the yield expression
\* the yield expression without the seed
SnowflakeNoSeed(ts, p, s, sq) ==
    BitOr(BitOr(Shl(ts - epoch, timestamp_shift), Shl(p, pid_shift)), sq)

Snowflake(ts, p, s, sq) ==
    BitOr(BitOr(BitOr(Shl(ts - epoch, timestamp_shift), Shl(s, seed_shift)),
                Shl(p, pid_shift)),
          sq)

\* sequence = (sequence + 2) & sequence_mask
NextSequenceSkip(sq) == BitAnd(sq + 2, sequence_mask)

\* sequence = (sequence + 1) & sequence_mask
NextSequence(sq) == BitAnd(sq + 1, sequence_mask)

\* sequence = 0 & sequence_mask
PlaceholderZero == BitAnd(0, sequence_mask)

\* the placeholder without the mask
PlaceholderUnmasked == BitOr(-1, sequence_mask)

PlaceholderSequence == BitAnd(-1, sequence_mask)

\* to_timestamp without "id += epoch"
to_timestamp_no_epoch(ep, id) == Shr(id, 22)

\* to_timestamp(epoch, id) with the default fmt = 'ms'
to_timestamp(ep, id) == Shr(id, 22) + ep

(***************************************************************************)
(* PyflakeClient of src/src/main.py: the attributes after __init__.  An    *)
(* attribute that is not set is << >>.                                     *)
(***************************************************************************)
ManagedNew ==
    [pid |-> << >>, seed |-> << >>, generator |-> FALSE, generated |-> 0,
     cache |-> {}]

(***************************************************************************)
(* Inputs.                                                                 *)
(***************************************************************************)
\* clock readings: math.floor(time.time() * 1000), at or after the epoch
ClockReadings == epoch .. (epoch + MaxDelta)

\* arguments tried for a field whose largest valid value is max
FieldInputs(max) == {-1, 0, max, max + 1}

(***************************************************************************)
(* Initial states: no generator has been constructed.                      *)
(***************************************************************************)
InitWith(E, G, C, Q) ==
    /\ epoch \in E
    /\ sequence_bits \in Q
    /\ gstate = [g \in G |-> "absent"]
    /\ running = [g \in G |-> FALSE]
    /\ pid = [g \in G |-> Undefined]
    /\ seed = [g \in G |-> Undefined]
    /\ last_timestamp = [g \in G |-> Undefined]
    /\ sequence = [g \in G |-> Undefined]
    /\ timestamp = [g \in G |-> Undefined]
    /\ slept = [g \in G |-> 0]
    /\ out = [g \in G |-> << >>]
    /\ inside = [c \in C |-> 0]
    /\ ended = << >>
    /\ marked = << >>
    /\ era = [g \in G |-> 0]
    /\ clock = epoch
    /\ regress = 0
    /\ rnd = << >>
    /\ packed = << >>
    /\ managed = ManagedNew
    /\ mcall = << >>

(***************************************************************************)
(* Construction: pyflake_generator(epoch, pid, seed), as called by         *)
(* PyflakeClient.__init__ and PyflakeClient.create.  Calling a generator   *)
(* function builds the generator object and runs none of its body.         *)
(***************************************************************************)
Construct(g, p, s) ==
    /\ gstate[g] = "absent"
    /\ gstate' = [gstate EXCEPT ![g] = "created"]
    /\ pid' = [pid EXCEPT ![g] = p]
    /\ seed' = [seed EXCEPT ![g] = s]
    /\ UNCHANGED <<aux, epoch, sequence_bits, running, last_timestamp, sequence,
                   timestamp, slept, out, inside, ended, marked>>

(***************************************************************************)
(* PyflakeClient.generate: next(self.generator).                           *)
(***************************************************************************)
\* the generator object's "already executing" flag
GeneratorExecutingNever(g) == FALSE

GeneratorExecuting(g) == running[g]

\* next() on a generator that is not executing resumes its frame
CallEnter(c, g) ==
    /\ inside[c] = 0
    /\ gstate[g] \in {"created", "suspended"}
    /\ ~GeneratorExecuting(g)
    /\ running' = [running EXCEPT ![g] = TRUE]
    /\ inside' = [inside EXCEPT ![c] = g]
    /\ gstate' = [gstate EXCEPT ![g] = IF @ = "suspended" THEN "loop" ELSE @]
    /\ UNCHANGED <<aux, epoch, sequence_bits, pid, seed, last_timestamp, sequence,
                   timestamp, slept, out, ended, marked>>

\* next() on a generator that is executing raises ValueError
CallBusy(c, g) ==
    /\ inside[c] = 0
    /\ gstate[g] # "absent"
    /\ GeneratorExecuting(g)
    /\ ended' = <<[caller |-> c, gen |-> g, kind |-> "ValueError"]>>
    /\ UNCHANGED <<aux, epoch, sequence_bits, gstate, running, pid, seed,
                   last_timestamp, sequence, timestamp, slept, out, inside,
                   marked>>

\* next() on a generator that ended with an exception raises StopIteration
CallClosed(c, g) ==
    /\ inside[c] = 0
    /\ gstate[g] = "closed"
    /\ ~GeneratorExecuting(g)
    /\ ended' = <<[caller |-> c, gen |-> g, kind |-> "StopIteration"]>>
    /\ UNCHANGED <<aux, epoch, sequence_bits, gstate, running, pid, seed,
                   last_timestamp, sequence, timestamp, slept, out, inside,
                   marked>>

(***************************************************************************)
(* pyflake_generator, the code before the loop (first next() only).        *)
(***************************************************************************)
StartOk(c, g) ==
    /\ inside[c] = g
    /\ gstate[g] = "created"
    /\ FieldsValid(pid[g], seed[g])
    /\ last_timestamp' = [last_timestamp EXCEPT ![g] = -1]
    /\ sequence' = [sequence EXCEPT ![g] = 0]
    /\ gstate' = [gstate EXCEPT ![g] = "loop"]
    /\ UNCHANGED <<aux, epoch, sequence_bits, running, pid, seed, timestamp, slept,
                   out, inside, ended, marked>>

\* a failed assert ends the generator and the next() call
StartFail(c, g) ==
    /\ inside[c] = g
    /\ gstate[g] = "created"
    /\ ~FieldsValid(pid[g], seed[g])
    /\ gstate' = [gstate EXCEPT ![g] = "closed"]
    /\ running' = [running EXCEPT ![g] = FALSE]
    /\ inside' = [inside EXCEPT ![c] = 0]
    /\ ended' = <<[caller |-> c, gen |-> g, kind |-> "AssertionError"]>>
    /\ UNCHANGED <<aux, epoch, sequence_bits, pid, seed, last_timestamp, sequence,
                   timestamp, slept, out, marked>>

(***************************************************************************)
(* pyflake_generator, one cycle of the while loop with clock reading now.  *)
(***************************************************************************)
\* if last_timestamp > timestamp
ClockBackwardNever(g, now) == FALSE

ClockBackward(g, now) == last_timestamp[g] > now

\* the argument of sleep() when the clock went backward
BackwardDelayOne(g, now) == 1

BackwardDelay(g, now) == last_timestamp[g] - now

\* if sequence == 0, after the increment
SequenceOverrunNever(sq) == FALSE

SequenceOverrun(sq) == sq = 0

\* sleep(last_timestamp - timestamp); continue
Backward(c, g, now) ==
    /\ inside[c] = g
    /\ gstate[g] = "loop"
    /\ ClockBackward(g, now)
    /\ timestamp' = [timestamp EXCEPT ![g] = now]
    /\ slept' = [slept EXCEPT ![g] = BackwardDelay(g, now)]
    /\ UNCHANGED <<aux, epoch, sequence_bits, gstate, running, pid, seed,
                   last_timestamp, sequence, out, inside, ended, marked>>

\* the sequence wrapped to 0: placeholder, sleep(1), continue
Overflow(c, g, now) ==
    /\ inside[c] = g
    /\ gstate[g] = "loop"
    /\ ~ClockBackward(g, now)
    /\ last_timestamp[g] = now
    /\ SequenceOverrun(NextSequence(sequence[g]))
    /\ timestamp' = [timestamp EXCEPT ![g] = now]
    /\ sequence' = [sequence EXCEPT ![g] = PlaceholderSequence]
    /\ slept' = [slept EXCEPT ![g] = 1]
    /\ UNCHANGED <<aux, epoch, sequence_bits, gstate, running, pid, seed,
                   last_timestamp, out, inside, ended, marked>>

\* the observer may pick the identifier being issued, once
Mark(g, rec, mark) ==
    IF marked = << >>
    THEN IF mark THEN <<[gen |-> g, id |-> rec.id, ts |-> rec.ts,
                         seq |-> rec.seq, same |-> 1, era |-> era[g],
                         pid |-> pid[g], seed |-> seed[g]]>>
         ELSE marked
    ELSE IF marked[1].gen = g /\ marked[1].era = era[g] /\ marked[1].ts = rec.ts
         THEN <<[marked[1] EXCEPT !.same = @ + 1]>>
         ELSE marked

\* last_timestamp = timestamp; yield (...): the next() call returns the value
Yield(c, g, now, sq, mark) ==
    LET rec == [id |-> Snowflake(now, pid[g], seed[g], sq), ts |-> now,
                seq |-> sq]
    IN /\ timestamp' = [timestamp EXCEPT ![g] = now]
       /\ sequence' = [sequence EXCEPT ![g] = sq]
       /\ last_timestamp' = [last_timestamp EXCEPT ![g] = now]
       /\ slept' = [slept EXCEPT ![g] = 0]
       /\ out' = [out EXCEPT ![g] = <<rec>>]
       /\ gstate' = [gstate EXCEPT ![g] = "suspended"]
       /\ running' = [running EXCEPT ![g] = FALSE]
       /\ inside' = [inside EXCEPT ![c] = 0]
       /\ ended' = <<[caller |-> c, gen |-> g, kind |-> "id"]>>
       /\ marked' = Mark(g, rec, mark)
       /\ UNCHANGED <<aux, epoch, sequence_bits, pid, seed>>

\* same millisecond as the last identifier, the sequence did not wrap
EmitSame(c, g, now, mark) ==
    /\ inside[c] = g
    /\ gstate[g] = "loop"
    /\ ~ClockBackward(g, now)
    /\ last_timestamp[g] = now
    /\ ~SequenceOverrun(NextSequence(sequence[g]))
    /\ Yield(c, g, now, NextSequence(sequence[g]), mark)

\* else: sequence = 0
EmitForward(c, g, now, mark) ==
    /\ inside[c] = g
    /\ gstate[g] = "loop"
    /\ ~ClockBackward(g, now)
    /\ last_timestamp[g] # now
    /\ Yield(c, g, now, 0, mark)

(***************************************************************************)
(* Specifications.                                                         *)
(***************************************************************************)
\* one generator handle shared by NumCallers callers, small sequence widths
Init == InitWith({0, MaxEpoch}, {1}, 1 .. NumCallers, {1, MaxSequenceBits})

Next ==
    \/ \E g \in Gens, p \in FieldInputs(max_pid), s \in FieldInputs(max_seed) :
           Construct(g, p, s)
    \/ \E c \in Callers, g \in Gens : CallEnter(c, g)
    \/ \E c \in Callers, g \in Gens : CallBusy(c, g)
    \/ \E c \in Callers, g \in Gens : CallClosed(c, g)
    \/ \E c \in Callers, g \in Gens : StartOk(c, g)
    \/ \E c \in Callers, g \in Gens : StartFail(c, g)
    \/ \E c \in Callers, g \in Gens, now \in ClockReadings : Backward(c, g, now)
    \/ \E c \in Callers, g \in Gens, now \in ClockReadings : Overflow(c, g, now)
    \/ \E c \in Callers, g \in Gens, now \in ClockReadings, mark \in BOOLEAN :
           EmitSame(c, g, now, mark)
    \/ \E c \in Callers, g \in Gens, now \in ClockReadings, mark \in BOOLEAN :
           EmitForward(c, g, now, mark)

Spec == Init /\ [][Next]_vars

\* two independent generator handles that share the epoch, built with valid
\* fields; one caller per generator; the narrowest sequence field
InitPair == InitWith({MaxEpoch}, {1, 2}, {1, 2}, {1})

\* caller c only uses generator c
NextPair ==
    \/ \E g \in Gens, p \in {0, max_pid}, s \in {0, max_seed} : Construct(g, p, s)
    \/ \E c \in Callers : CallEnter(c, c)
    \/ \E c \in Callers : StartOk(c, c)
    \/ \E c \in Callers, now \in ClockReadings : Backward(c, c, now)
    \/ \E c \in Callers, now \in ClockReadings : Overflow(c, c, now)
    \/ \E c \in Callers, now \in ClockReadings, mark \in BOOLEAN :
           EmitSame(c, c, now, mark)
    \/ \E c \in Callers, now \in ClockReadings, mark \in BOOLEAN :
           EmitForward(c, c, now, mark)

SpecPair == InitPair /\ [][NextPair]_vars

\* one generator handle with the sequence width of src/main.py, one caller,
\* the observer marks nothing
InitDefault == InitWith({0, MaxEpoch}, {1}, {1}, {DefaultSequenceBits})

NextDefault ==
    \/ \E g \in Gens, p \in FieldInputs(max_pid), s \in FieldInputs(max_seed) :
           Construct(g, p, s)
    \/ \E c \in Callers, g \in Gens : CallEnter(c, g)
    \/ \E c \in Callers, g \in Gens : CallClosed(c, g)
    \/ \E c \in Callers, g \in Gens : StartOk(c, g)
    \/ \E c \in Callers, g \in Gens : StartFail(c, g)
    \/ \E c \in Callers, g \in Gens, now \in ClockReadings : Backward(c, g, now)
    \/ \E c \in Callers, g \in Gens, now \in ClockReadings : Overflow(c, g, now)
    \/ \E c \in Callers, g \in Gens, now \in ClockReadings :
           EmitSame(c, g, now, FALSE)
    \/ \E c \in Callers, g \in Gens, now \in ClockReadings :
           EmitForward(c, g, now, FALSE)

SpecDefault == InitDefault /\ [][NextDefault]_vars

(***************************************************************************)
(* The wall clock, followed as a variable: it advances by itself and may   *)
(* be set back (NTP correction) MaxRegress times.  The generator reads it  *)
(* at the top of every cycle of its loop, and its sleep() returns at once. *)
(***************************************************************************)
Tick ==
    /\ clock < epoch + MaxDelta
    /\ clock' = clock + 1
    /\ UNCHANGED <<epoch, sequence_bits, gstate, running, pid, seed,
                   last_timestamp, sequence, timestamp, slept, out, inside,
                   ended, marked, era, regress, rnd, packed, managed, mcall>>

SetBack ==
    /\ regress < MaxRegress
    /\ clock > epoch
    /\ clock' = clock - 1
    /\ regress' = regress + 1
    /\ UNCHANGED <<epoch, sequence_bits, gstate, running, pid, seed,
                   last_timestamp, sequence, timestamp, slept, out, inside,
                   ended, marked, era, rnd, packed, managed, mcall>>

\* timestamp = math.floor(time.time() * 1000), inside the while loop
ReadClockStale(g) == IF timestamp[g] = Undefined THEN clock ELSE timestamp[g]

ReadClock(g) == clock

\* the steps the generator takes by itself once next() has resumed it
Run(c, g) ==
    \/ StartOk(c, g)
    \/ StartFail(c, g)
    \/ Backward(c, g, ReadClock(g))
    \/ Overflow(c, g, ReadClock(g))
    \/ \E mark \in BOOLEAN : EmitSame(c, g, ReadClock(g), mark)
    \/ \E mark \in BOOLEAN : EmitForward(c, g, ReadClock(g), mark)

\* one generator handle, one caller, the narrowest sequence field
InitLive == InitWith({0, MaxEpoch}, {1}, {1}, {1})

NextLive ==
    \/ \E g \in Gens, p \in FieldInputs(max_pid), s \in FieldInputs(max_seed) :
           Construct(g, p, s)
    \/ \E c \in Callers, g \in Gens : CallEnter(c, g)
    \/ \E c \in Callers, g \in Gens : CallClosed(c, g)
    \/ \E c \in Callers, g \in Gens : StartOk(c, g)
    \/ \E c \in Callers, g \in Gens : StartFail(c, g)
    \/ \E c \in Callers, g \in Gens : Backward(c, g, ReadClock(g))
    \/ \E c \in Callers, g \in Gens : Overflow(c, g, ReadClock(g))
    \/ \E c \in Callers, g \in Gens, mark \in BOOLEAN :
           EmitSame(c, g, ReadClock(g), mark)
    \/ \E c \in Callers, g \in Gens, mark \in BOOLEAN :
           EmitForward(c, g, ReadClock(g), mark)
    \/ Tick
    \/ SetBack

\* the clock keeps advancing while it can, and a resumed generator keeps
\* running: its loop has no blocking call but sleep(), which returns
SpecLive ==
    /\ InitLive
    /\ [][NextLive]_vars
    /\ WF_vars(Tick)
    /\ \A c \in {1}, g \in {1} : WF_vars(Run(c, g))

(***************************************************************************)
(* A clock that may also read below the epoch (an epoch in the future, or  *)
(* a clock set far back): pyflake_generator compares the reading with      *)
(* last_timestamp only.                                                    *)
(***************************************************************************)
EarlyReadings == (epoch - MaxDelta) .. (epoch + MaxDelta)

\* one generator handle, one caller, the observer marks nothing
InitEarly == InitWith({0, MaxEpoch}, {1}, {1}, {1, MaxSequenceBits})

NextEarly ==
    \/ \E g \in Gens, p \in FieldInputs(max_pid), s \in FieldInputs(max_seed) :
           Construct(g, p, s)
    \/ \E c \in Callers, g \in Gens : CallEnter(c, g)
    \/ \E c \in Callers, g \in Gens : CallClosed(c, g)
    \/ \E c \in Callers, g \in Gens : StartOk(c, g)
    \/ \E c \in Callers, g \in Gens : StartFail(c, g)
    \/ \E c \in Callers, g \in Gens, now \in EarlyReadings : Backward(c, g, now)
    \/ \E c \in Callers, g \in Gens, now \in EarlyReadings : Overflow(c, g, now)
    \/ \E c \in Callers, g \in Gens, now \in EarlyReadings :
           EmitSame(c, g, now, FALSE)
    \/ \E c \in Callers, g \in Gens, now \in EarlyReadings :
           EmitForward(c, g, now, FALSE)

SpecEarly == InitEarly /\ [][NextEarly]_vars

(***************************************************************************)
(* The pure functions, applied to inputs drawn from small sets.            *)
(***************************************************************************)
\* the second argument of random.randint in generate_seed: in Python ^ is
\* exclusive or and binds less tightly than -, so 2^bits-1 is 2 xor (bits-1)
seed_upper(bits) == BitXor(2, bits - 1)

\* generate_seed(bits): random.randint(1, upper) returns any of 1 .. upper
GenerateSeedOk(bits, r) ==
    /\ r \in 1 .. seed_upper(bits)
    /\ rnd' = <<[bits |-> bits, kind |-> "int", value |-> r]>>
    /\ UNCHANGED <<epoch, sequence_bits, gstate, running, pid, seed,
                   last_timestamp, sequence, timestamp, slept, out, inside,
                   ended, marked, era, clock, regress, packed, managed, mcall>>

\* random.randint raises ValueError on an empty range
GenerateSeedEmpty(bits) ==
    /\ seed_upper(bits) < 1
    /\ rnd' = <<[bits |-> bits, kind |-> "ValueError", value |-> 0]>>
    /\ UNCHANGED <<epoch, sequence_bits, gstate, running, pid, seed,
                   last_timestamp, sequence, timestamp, slept, out, inside,
                   ended, marked, era, clock, regress, packed, managed, mcall>>

\* field values packed: the ends of each range and an alternating bit pattern
PidInputs == {0, 21, max_pid}
SeedInputs == {0, 10, max_seed}
SequenceInputs == {0, 2730, sequence_mask}
DeltaInputs == (0 .. MaxDelta) \cup {511}

\* the yield expression of pyflake_generator on one tuple of fields; the
\* tuple packed before it is kept for comparison
Pack(ts, p, s, sq) ==
    /\ FieldsValid(p, s)
    /\ packed' = <<[ts |-> ts, pid |-> p, seed |-> s, seq |-> sq,
                    id |-> Snowflake(ts, p, s, sq)]>>
                 \o (IF packed = << >> THEN << >> ELSE <<packed[1]>>)
    /\ UNCHANGED <<epoch, sequence_bits, gstate, running, pid, seed,
                   last_timestamp, sequence, timestamp, slept, out, inside,
                   ended, marked, era, clock, regress, rnd, managed, mcall>>

\* no generator object; only generate_seed is called
InitSeed == InitWith({MaxEpoch}, {}, {}, {DefaultSequenceBits})

NextSeed ==
    \/ \E bits \in 1 .. MaxSeedBits : \E r \in 1 .. seed_upper(bits) :
           GenerateSeedOk(bits, r)
    \/ \E bits \in 1 .. MaxSeedBits : GenerateSeedEmpty(bits)

SpecSeed == InitSeed /\ [][NextSeed]_vars

\* no generator object; tuples are packed with the widths of src/main.py
InitPack == InitWith({MaxEpoch}, {}, {}, {DefaultSequenceBits})

NextPack ==
    \E d \in DeltaInputs, p \in PidInputs, s \in SeedInputs,
       sq \in SequenceInputs : Pack(epoch + d, p, s, sq)

SpecPack == InitPack /\ [][NextPack]_vars

(***************************************************************************)
(* PyflakeClient of src/main.py: one client, its generator attribute is    *)
(* the handle g, and one thread calls its methods one after the other.     *)
(* era[g] counts the generators the client has dropped.                    *)
(***************************************************************************)
\* the client object exists: __init__ ran (it builds the first generator)
ClientExists(g) == gstate[g] # "absent" \/ era[g] > 0

\* getattr(self, 'generator', None): a generator object is always true
HasGenerator(g) == gstate[g] # "absent"

\* no call of the client's thread is in progress
Idle == \A c \in Callers : inside[c] = 0

\* the generator attribute of the client after the old object is gone:
\* absent, or a generator just built for p and s whose body has not run
Replace(g, st, p, s) ==
    /\ gstate' = [gstate EXCEPT ![g] = st]
    /\ running' = [running EXCEPT ![g] = FALSE]
    /\ pid' = [pid EXCEPT ![g] = p]
    /\ seed' = [seed EXCEPT ![g] = s]
    /\ last_timestamp' = [last_timestamp EXCEPT ![g] = Undefined]
    /\ sequence' = [sequence EXCEPT ![g] = Undefined]
    /\ timestamp' = [timestamp EXCEPT ![g] = Undefined]
    /\ slept' = [slept EXCEPT ![g] = 0]
    /\ out' = [out EXCEPT ![g] = << >>]
    /\ era' = [era EXCEPT ![g] = @ + 1]
    /\ UNCHANGED <<epoch, sequence_bits, inside, ended, marked, clock, regress,
                   rnd, packed, managed, mcall>>

\* PyflakeClient.destroy
Destroy(g) ==
    /\ Idle /\ ClientExists(g)
    /\ IF HasGenerator(g)
       THEN era[g] < MaxEra /\ Replace(g, "absent", Undefined, Undefined)
       ELSE UNCHANGED vars

\* PyflakeClient.create
Create(g, p, s) ==
    /\ Idle /\ ClientExists(g)
    /\ IF ~HasGenerator(g) THEN Construct(g, p, s) ELSE UNCHANGED vars

\* PyflakeClient.renew: self.destroy(); self.create(pid, seed)
Renew(g, p, s) ==
    /\ Idle /\ ClientExists(g)
    /\ IF HasGenerator(g)
       THEN era[g] < MaxEra /\ Replace(g, "created", p, s)
       ELSE Construct(g, p, s)

\* PyflakeClient.generate without a generator attribute: next(self.generator)
\* raises AttributeError
GenerateMissing(c, g) ==
    /\ inside[c] = 0
    /\ ClientExists(g) /\ ~HasGenerator(g)
    /\ ended' = <<[caller |-> c, gen |-> g, kind |-> "AttributeError"]>>
    /\ UNCHANGED <<aux, epoch, sequence_bits, gstate, running, pid, seed,
                   last_timestamp, sequence, timestamp, slept, out, inside,
                   marked>>

\* one client, one thread, the narrowest sequence field
InitClient == InitWith({MaxEpoch}, {1}, {1}, {1})

NextClient ==
    \/ \E g \in Gens, p \in FieldInputs(max_pid), s \in {0, max_seed} :
           ~ClientExists(g) /\ Construct(g, p, s)
    \/ \E g \in Gens : Destroy(g)
    \/ \E g \in Gens, p \in FieldInputs(max_pid), s \in {0, max_seed} :
           Create(g, p, s)
    \/ \E g \in Gens, p \in FieldInputs(max_pid), s \in {0, max_seed} :
           Renew(g, p, s)
    \/ \E c \in Callers, g \in Gens : GenerateMissing(c, g)
    \/ \E c \in Callers, g \in Gens : CallEnter(c, g)
    \/ \E c \in Callers, g \in Gens : CallClosed(c, g)
    \/ \E c \in Callers, g \in Gens : StartOk(c, g)
    \/ \E c \in Callers, g \in Gens : StartFail(c, g)
    \/ \E c \in Callers, g \in Gens, now \in ClockReadings : Backward(c, g, now)
    \/ \E c \in Callers, g \in Gens, now \in ClockReadings : Overflow(c, g, now)
    \/ \E c \in Callers, g \in Gens, now \in ClockReadings, mark \in BOOLEAN :
           EmitSame(c, g, now, mark)
    \/ \E c \in Callers, g \in Gens, now \in ClockReadings, mark \in BOOLEAN :
           EmitForward(c, g, now, mark)

SpecClient == InitClient /\ [][NextClient]_vars

(***************************************************************************)
(* PyflakeClient of src/src/main.py (the managed client).  managed holds   *)
(* its attributes: pid and seed are << >> while the attribute is not set,  *)
(* generator says whether the generator attribute is set.  Each method is  *)
(* a function from the attributes to the attributes it leaves and the way  *)
(* it ends: "None" (returned) or the exception it raised.                  *)
(***************************************************************************)
\* getattr(self, 'generator', None) of the managed client, never true
MHasGeneratorNever(m) == FALSE

\* getattr(self, 'generator', None) of the managed client
MHasGenerator(m) == m.generator

\* create_generator: pid and seed are set first; then the call
\* pyflake_generator(self.epoch, pid, seed) lacks the argument sequence_bits
\* and raises TypeError before the generator attribute is set
CreateResult(m, p, s) ==
    IF ~MHasGenerator(m)
    THEN [m |-> [m EXCEPT !.pid = <<p>>, !.seed = <<s>>], kind |-> "TypeError"]
    ELSE [m |-> m, kind |-> "AttributeError"]

\* destroy_generator: delattr raises AttributeError on an attribute not set
DestroyResult(m) ==
    IF MHasGenerator(m)
    THEN IF m.pid = << >> THEN [m |-> m, kind |-> "AttributeError"]
         ELSE IF m.seed = << >>
              THEN [m |-> [m EXCEPT !.pid = << >>], kind |-> "AttributeError"]
              ELSE [m |-> [m EXCEPT !.pid = << >>, !.seed = << >>,
                                    !.generator = FALSE],
                    kind |-> "None"]
    ELSE [m |-> m, kind |-> "AttributeError"]

\* renew_generator: destroy_generator, whose AttributeError is swallowed,
\* then create_generator
RenewResult(m, p, s) ==
    LET d == DestroyResult(m)
    IN IF d.kind \in {"None", "AttributeError"}
       THEN CreateResult(d.m, p, s)
       ELSE d

\* generate: without a generator self.generator raises AttributeError; with
\* one, res.snowflake() shifts an int by a bound method and raises TypeError
\* before _cache and _generated are updated
GenerateResult(m) ==
    IF ~m.generator THEN [m |-> m, kind |-> "AttributeError"]
    ELSE [m |-> m, kind |-> "TypeError"]

\* a call on the managed client: its attributes afterwards, and the record
\* of the call
ManagedCall(op, args, r) ==
    /\ managed' = r.m
    /\ mcall' = <<[op |-> op, args |-> args, kind |-> r.kind]>>
    /\ UNCHANGED <<epoch, sequence_bits, gstate, running, pid, seed,
                   last_timestamp, sequence, timestamp, slept, out, inside,
                   ended, marked, era, clock, regress, rnd, packed>>

MCreate(p, s) ==
    ManagedCall("create_generator", <<p, s>>, CreateResult(managed, p, s))

MDestroy == ManagedCall("destroy_generator", << >>, DestroyResult(managed))

MRenew(p, s) ==
    ManagedCall("renew_generator", <<p, s>>, RenewResult(managed, p, s))

MGenerate == ManagedCall("generate", << >>, GenerateResult(managed))

\* the program that uses the client sets the generator attribute itself
\* (the comments of create_generator allow it)
MAssign ==
    /\ ~managed.generator
    /\ ManagedCall("assign", << >>,
                   [m |-> [managed EXCEPT !.generator = TRUE], kind |-> "None"])

\* arguments tried for pid and seed
ManagedInputs == FieldInputs(max_pid) \cup PidInputs

\* the managed client after __init__
InitManaged == InitWith({MaxEpoch}, {}, {}, {DefaultSequenceBits})

\* the four methods only
NextManaged ==
    \/ \E p \in ManagedInputs, s \in ManagedInputs : MCreate(p, s)
    \/ MDestroy
    \/ \E p \in ManagedInputs, s \in ManagedInputs : MRenew(p, s)
    \/ MGenerate

SpecManaged == InitManaged /\ [][NextManaged]_vars

\* the four methods and the assignment of the generator attribute
NextAssigned ==
    \/ \E p \in ManagedInputs, s \in ManagedInputs : MCreate(p, s)
    \/ MDestroy
    \/ \E p \in ManagedInputs, s \in ManagedInputs : MRenew(p, s)
    \/ MGenerate
    \/ MAssign

SpecAssigned == InitManaged /\ [][NextAssigned]_vars

(***************************************************************************)
(* Properties.                                                             *)
(***************************************************************************)
\* a step in which generator g yields an identifier
Issues(g) == gstate[g] = "loop" /\ gstate'[g] = "suspended"

\* the callers that are inside next() of generator g
InProgress(g) == {c \in Callers : inside[c] = g}

\* C1: the identifiers a generator returns are strictly increasing: each
\* identifier it issues is greater than the one it issued just before and
\* greater than any identifier it issued earlier (the marked one).
C1_Monotonic ==
    [][\A g \in Gens :
          Issues(g) =>
              /\ out[g] # << >> => out'[g][1].id > out[g][1].id
              /\ (marked # << >> /\ marked[1].gen = g)
                     => out'[g][1].id > marked[1].id]_vars

\* C1 witness: after two identifiers were issued, a later call met a clock
\* that went back by two milliseconds and is waiting.
C1_Witness ==
    \E g \in Gens :
        /\ marked # << >> /\ marked[1].gen = g
        /\ out[g] # << >> /\ out[g][1].id > marked[1].id
        /\ gstate[g] = "loop" /\ slept[g] = 2

\* C2: no two identifiers issued by one generator carry the same
\* (timestamp, sequence) pair or the same raw value.
C2_Unique ==
    [][\A g \in Gens :
          (Issues(g) /\ marked # << >> /\ marked[1].gen = g)
              => /\ <<out'[g][1].ts, out'[g][1].seq>>
                        # <<marked[1].ts, marked[1].seq>>
                 /\ out'[g][1].id # marked[1].id]_vars

\* C2 witness: every sequence value of one millisecond was issued, the first
\* of them marked, and the counter has just wrapped in that millisecond
\* (placeholder written, 1 ms wait).
C2_Witness ==
    \E g \in Gens :
        /\ marked # << >> /\ marked[1].gen = g
        /\ marked[1].ts = last_timestamp[g] /\ marked[1].seq = 0
        /\ out[g] # << >> /\ out[g][1].seq = sequence_mask
        /\ out[g][1].id # marked[1].id
        /\ gstate[g] = "loop" /\ timestamp[g] = last_timestamp[g]
        /\ slept[g] = 1

\* C3: at most one caller is inside an issuance cycle of a generator, and
\* no identifier is returned twice (to the same or to another caller).
C3_OneAtATime ==
    /\ [](\A g \in Gens : Cardinality(InProgress(g)) <= 1)
    /\ [][\A g \in Gens :
             (Issues(g) /\ marked # << >> /\ marked[1].gen = g)
                 => out'[g][1].id # marked[1].id]_vars

\* C3 witness: one caller is inside the cycle while another caller's
\* concurrent next() on the same generator was turned away.
C3_Witness ==
    \E g \in Gens, c, d \in Callers :
        /\ c # d /\ inside[c] = g /\ gstate[g] = "loop"
        /\ inside[d] = 0
        /\ ended = <<[caller |-> d, gen |-> g, kind |-> "ValueError"]>>
        /\ out[g] # << >>

\* a step in which generator g runs one cycle of its loop
CycleOf(g) ==
    /\ gstate[g] = "loop"
    /\ <<gstate[g], timestamp[g], slept[g], sequence[g], last_timestamp[g],
          out[g]>>'
         # <<gstate[g], timestamp[g], slept[g], sequence[g], last_timestamp[g],
             out[g]>>

\* C4: two generators that share the epoch and were built with valid,
\* distinct (pid, seed) pairs never issue the same identifier, whichever of
\* the two issues first.
C4_CrossUnique ==
    [][\A g \in Gens :
          (/\ Issues(g)
           /\ marked # << >>
           /\ marked[1].gen # g
           /\ <<pid[g], seed[g]>> # <<pid[marked[1].gen], seed[marked[1].gen]>>)
              => out'[g][1].id # marked[1].id]_vars

\* C4 witness: both generators issued in the same millisecond with the
\* same sequence; they share the pid and differ in the seed.
C4_Witness ==
    /\ marked # << >> /\ marked[1].gen = 1
    /\ out[2] # << >>
    /\ out[2][1].ts = marked[1].ts /\ out[2][1].seq = marked[1].seq
    /\ pid[1] = pid[2] /\ seed[1] # seed[2]
    /\ out[2][1].id # marked[1].id

\* C5: a cycle that reads a clock earlier than last_timestamp issues
\* nothing, sleeps exactly last_timestamp - now, leaves last_timestamp and
\* sequence alone and stays in the loop; and the timestamp field of an issued
\* identifier is never below that of the identifier issued before it.
C5_BackwardSafe ==
    [][\A g \in Gens :
          /\ (CycleOf(g) /\ timestamp'[g] < last_timestamp[g])
                 => /\ gstate'[g] = "loop" /\ running'[g]
                    /\ out'[g] = out[g]
                    /\ slept'[g] = last_timestamp[g] - timestamp'[g]
                    /\ last_timestamp'[g] = last_timestamp[g]
                    /\ sequence'[g] = sequence[g]
          /\ (Issues(g) /\ out[g] # << >>)
                 => out'[g][1].ts >= out[g][1].ts]_vars

\* C5 witness: the generator has issued, then read a clock two milliseconds
\* behind last_timestamp and slept for that difference.
C5_Witness ==
    \E g \in Gens :
        /\ gstate[g] = "loop" /\ out[g] # << >>
        /\ timestamp[g] = last_timestamp[g] - 2
        /\ slept[g] = 2
        /\ out[g][1].ts = last_timestamp[g] /\ out[g][1].seq = sequence[g]

\* C6: a generator issues at most 2^sequence_bits identifiers with one
\* timestamp; the cycle that reads that millisecond again once the largest
\* sequence is reached writes the placeholder 2^sequence_bits - 1, sleeps 1
\* and issues nothing; and whatever is issued after that has a later
\* timestamp.
C6_SequenceBound ==
    /\ [](marked # << >> => marked[1].same <= 2^sequence_bits)
    /\ [][\A g \in Gens :
             /\ (/\ CycleOf(g)
                 /\ timestamp'[g] = last_timestamp[g]
                 /\ sequence[g] = 2^sequence_bits - 1)
                    => /\ sequence'[g] = 2^sequence_bits - 1
                       /\ slept'[g] = 1
                       /\ gstate'[g] = "loop"
                       /\ out'[g] = out[g]
                       /\ last_timestamp'[g] = last_timestamp[g]
             /\ (Issues(g) /\ sequence[g] = 2^sequence_bits - 1)
                    => out'[g][1].ts > last_timestamp[g]]_vars

\* C6 witness: with the widest sequence field, all 2^sequence_bits
\* identifiers of the marked millisecond were issued and the next request in
\* that millisecond ended in the 1 ms wait.
C6_Witness ==
    \E g \in Gens :
        /\ sequence_bits = MaxSequenceBits
        /\ marked # << >> /\ marked[1].gen = g
        /\ marked[1].same = 2^sequence_bits
        /\ gstate[g] = "loop" /\ slept[g] = 1
        /\ timestamp[g] = marked[1].ts /\ last_timestamp[g] = marked[1].ts
        /\ sequence[g] = 2^sequence_bits - 1

\* C7 (as claimed): a generator handle exists only for a pid and a seed
\* within their ranges, so no next() call ever enters a generator built with
\* an out-of-range field.
C7_RejectedAtConstruction ==
    \A g \in Gens :
        /\ gstate[g] # "absent"
               => (pid[g] \in 0 .. 31 /\ seed[g] \in 0 .. 31)
        /\ running[g] => (pid[g] \in 0 .. 31 /\ seed[g] \in 0 .. 31)

\* C8: decoding an issued identifier with to_timestamp and the generator's
\* epoch gives back the clock reading the identifier was built from.
C8_RoundTrip ==
    \A g \in Gens :
        out[g] # << >> => to_timestamp(epoch, out[g][1].id) = out[g][1].ts

\* C8 witness: a nonzero epoch, the largest pid, seed and sequence, and a
\* clock reading after the epoch.
C8_Witness ==
    \E g \in Gens :
        /\ epoch > 0 /\ out[g] # << >>
        /\ out[g][1].ts > epoch /\ out[g][1].seq = 4095
        /\ pid[g] = 31 /\ seed[g] = 31
        /\ to_timestamp(epoch, out[g][1].id) = out[g][1].ts

\* C9: with the widths 5, 5 and 12 every issued identifier is
\* ((now - epoch) << 22) | (seed << 17) | (pid << 12) | sequence for the
\* clock reading and the sequence of the issuing cycle, and the first
\* identifier of a generator has sequence 0.
C9_Layout ==
    [][\A g \in Gens :
          Issues(g) =>
              /\ out'[g][1].id =
                     BitOr(BitOr(BitOr(Shl(timestamp'[g] - epoch, 22),
                                       Shl(seed[g], 17)),
                                 Shl(pid[g], 12)),
                           sequence'[g])
              /\ out'[g][1].id = (timestamp'[g] - epoch) * 4194304
                                    + seed[g] * 131072 + pid[g] * 4096
                                    + sequence'[g]
              /\ out[g] = << >> => sequence'[g] = 0]_vars

\* C9 witness: pid 31 and seed 0, an identifier issued one millisecond after
\* the epoch with sequence 5.
C9_Witness ==
    \E g \in Gens :
        /\ pid[g] = 31 /\ seed[g] = 0 /\ gstate[g] = "suspended"
        /\ timestamp[g] = epoch + 1 /\ sequence[g] = 5
        /\ out[g] = <<[id |-> 4194304 + 126976 + 5, ts |-> epoch + 1,
                        seq |-> 5]>>

\* C10: an identifier issued in the millisecond of the one before it has the
\* same timestamp, the next sequence and the next raw value; an identifier
\* issued in a later millisecond, or first of all, has sequence 0.
C10_Transition ==
    [][\A g \in Gens :
          Issues(g) =>
              /\ (out[g] # << >> /\ timestamp'[g] = out[g][1].ts)
                     => /\ out'[g][1].ts = out[g][1].ts
                        /\ out'[g][1].seq = out[g][1].seq + 1
                        /\ out'[g][1].id = out[g][1].id + 1
              /\ (out[g] # << >> /\ timestamp'[g] > out[g][1].ts)
                     => out'[g][1].seq = 0
              /\ out[g] = << >> => out'[g][1].seq = 0]_vars

\* C10 witness: the second and third identifier of one millisecond.
C10_Witness ==
    \E g \in Gens :
        /\ marked # << >> /\ marked[1].gen = g
        /\ marked[1].seq = 1 /\ marked[1].same = 2
        /\ gstate[g] = "suspended"
        /\ out[g] = <<[id |-> marked[1].id + 1, ts |-> marked[1].ts,
                        seq |-> 2]>>

\* C11: a generate() call on a validly constructed generator never ends in
\* an error, whatever the clock did and however many sequence values were
\* used up; and every such call returns an identifier once the clock can
\* still read a value greater than last_timestamp.
C11_Terminates ==
    /\ [](\A g \in Gens :
             (ended # << >> /\ ended[1].gen = g /\ FieldsValid(pid[g], seed[g]))
                 => ended[1].kind = "id")
    /\ \A c \in {1}, g \in {1} :
           (inside[c] = g /\ FieldsValid(pid[g], seed[g])
                /\ last_timestamp[g] < epoch + MaxDelta)
               ~> (inside[c] = 0 /\ ended # << >> /\ ended[1].kind = "id")

\* C11 witness: the sequence values of one millisecond were used up, the
\* clock was set back, and a later call has returned an identifier of a
\* later millisecond.
C11_Witness ==
    \E g \in Gens :
        /\ FieldsValid(pid[g], seed[g])
        /\ marked # << >> /\ marked[1].gen = g
        /\ marked[1].same = sequence_mask + 1
        /\ regress > 0
        /\ gstate[g] = "suspended" /\ ended # << >> /\ ended[1].kind = "id"
        /\ out[g] # << >> /\ out[g][1].ts > marked[1].ts

\* C12: no identifier is built from a clock reading earlier than the epoch:
\* a call whose cycle reads such a value ends in an error, so every issued
\* identifier has a timestamp at or after the epoch and is not negative.
C12_EpochChecked ==
    \A g \in Gens :
        out[g] # << >> => (out[g][1].ts >= epoch /\ out[g][1].id >= 0)

\* C13: for every bits >= 1, generate_seed(bits) returns, without raising,
\* an integer between 1 and 2^bits - 1.
C13_SeedRange ==
    rnd # << >> =>
        /\ rnd[1].kind = "int"
        /\ 1 <= rnd[1].value
        /\ rnd[1].value <= Shl(1, rnd[1].bits) - 1

\* C14: while a generator runs or is suspended, before its first identifier
\* last_timestamp is -1 and sequence is 0, and afterwards (at each yield,
\* while it waits for a clock that went back, after the overflow placeholder
\* was written) last_timestamp and sequence are the timestamp and the
\* sequence of the identifier it issued last.
C14_StateTracksLast ==
    \A g \in Gens :
        gstate[g] \in {"loop", "suspended"} =>
            IF out[g] = << >>
            THEN last_timestamp[g] = -1 /\ sequence[g] = 0
            ELSE /\ last_timestamp[g] = out[g][1].ts
                 /\ sequence[g] = out[g][1].seq

\* C14 witness: with the wider sequence field, the placeholder has been
\* written after the last sequence value of a millisecond was issued.
C14_Witness ==
    \E g \in Gens :
        /\ sequence_bits = MaxSequenceBits
        /\ gstate[g] = "loop" /\ slept[g] = 1
        /\ timestamp[g] = last_timestamp[g]
        /\ out[g] # << >> /\ out[g][1].seq = sequence_mask
        /\ sequence[g] = sequence_mask

\* C15: packing is lossless.  For pid and seed in 0 .. 31, a sequence in
\* 0 .. 4095 and a timestamp at or after the epoch, the identifier is not
\* negative, its bits from 22 up are exactly the timestamp delta (so a delta
\* below 2^42 keeps it below 2^64), the fields do not overlap (the
\* identifier is the sum of the shifted fields), the sequence is recovered
\* from bits 0-11, the pid from bits 12-16 and the seed from bits 17-21, and
\* two different tuples give two different identifiers.
C15_Lossless ==
    /\ \A i \in 1 .. Len(packed) :
           LET e == packed[i]
           IN /\ e.id >= 0
              /\ Shr(e.id, 22) = e.ts - epoch
              /\ BitAnd(e.id, 4095) = e.seq
              /\ BitAnd(Shr(e.id, 12), 31) = e.pid
              /\ BitAnd(Shr(e.id, 17), 31) = e.seed
              /\ e.id = (e.ts - epoch) * 4194304 + e.seed * 131072
                           + e.pid * 4096 + e.seq
    /\ Len(packed) = 2 =>
           (<<packed[1].ts, packed[1].pid, packed[1].seed, packed[1].seq>>
                # <<packed[2].ts, packed[2].pid, packed[2].seed, packed[2].seq>>
              => packed[1].id # packed[2].id)

\* C15 witness: two tuples were packed, one with every field at its largest
\* value and one with alternating bits in every field.
C15_Witness ==
    /\ Len(packed) = 2
    /\ packed[1] = [ts |-> epoch + 511, pid |-> 31, seed |-> 31, seq |-> 4095,
                    id |-> 2147483647]
    /\ packed[2].ts = epoch + 1 /\ packed[2].pid = 21 /\ packed[2].seed = 10
    /\ packed[2].seq = 2730 /\ packed[2].id = 4194304 + 1310720 + 86016 + 2730

\* C16: a renew call always leaves the client holding a newly built
\* generator bound to the pid and the seed it was given, whether or not the
\* client held a generator before the call.
C16_RenewInstalls ==
    (mcall # << >> /\ mcall[1].op = "renew_generator") =>
        /\ mcall[1].kind = "None"
        /\ managed.generator
        /\ managed.pid = <<mcall[1].args[1]>>
        /\ managed.seed = <<mcall[1].args[2]>>

\* C17: destroy_generator on a managed client without a generator raises
\* AttributeError, create_generator on one with a generator raises
\* AttributeError, and both leave pid, seed, generator, _generated and
\* _cache as they were.
C17_ErrorsKeepState ==
    [][/\ (MDestroy /\ ~managed.generator)
              => (mcall'[1].kind = "AttributeError" /\ managed' = managed)
       /\ \A p \in ManagedInputs, s \in ManagedInputs :
              (MCreate(p, s) /\ managed.generator)
                  => (mcall'[1].kind = "AttributeError" /\ managed' = managed)
      ]_vars

\* C17 witness: create_generator has just failed on a client that holds a
\* generator and a pid and seed other than the ones passed.
C17_Witness ==
    /\ mcall # << >> /\ mcall[1].op = "create_generator"
    /\ mcall[1].kind = "AttributeError"
    /\ managed.generator
    /\ managed.pid # << >> /\ managed.pid # <<mcall[1].args[1]>>
    /\ managed.seed # << >> /\ managed.seed # <<mcall[1].args[2]>>

\* C18: whatever methods of the managed client were called, its pid and
\* seed attributes are set exactly when its generator attribute is set.
C18_Lifecycle ==
    /\ (managed.pid # << >>) <=> managed.generator
    /\ (managed.seed # << >>) <=> managed.generator

\* C19, as stated: all identifiers one client returns are pairwise distinct,
\* also across a renew (or destroy and create) that reuses pid and seed: the
\* identifier a generator of the client issued last differs from the marked
\* one issued by the client unless it is that very identifier.
C19_ClientUnique ==
    \A g \in Gens :
        (/\ marked # << >> /\ marked[1].gen = g /\ out[g] # << >>
         /\ <<marked[1].era, marked[1].ts, marked[1].seq>>
                # <<era[g], out[g][1].ts, out[g][1].seq>>)
            => out[g][1].id # marked[1].id

\* C19, amended: two identifiers one client returns are equal only if they
\* come from two of its generators that had the same pid and seed and
\* issued them with the same timestamp and sequence; identifiers of one
\* generator, of generators with different (pid, seed), or with different
\* (timestamp, sequence) are distinct.
C19_UniqueUnlessReused ==
    \A g \in Gens :
        (/\ marked # << >> /\ marked[1].gen = g /\ out[g] # << >>
         /\ <<marked[1].era, marked[1].ts, marked[1].seq>>
                # <<era[g], out[g][1].ts, out[g][1].seq>>
         /\ \/ marked[1].era = era[g]
            \/ <<marked[1].pid, marked[1].seed>> # <<pid[g], seed[g]>>
            \/ <<marked[1].ts, marked[1].seq>> # <<out[g][1].ts, out[g][1].seq>>)
            => out[g][1].id # marked[1].id

\* C19 witness: after a renew that changed the seed and kept the pid, the
\* new generator issued an identifier with the timestamp and the sequence
\* of the marked identifier of the old generator.
C19_Witness ==
    \E g \in Gens :
        /\ marked # << >> /\ marked[1].gen = g /\ marked[1].era < era[g]
        /\ marked[1].pid = pid[g] /\ marked[1].seed # seed[g]
        /\ gstate[g] = "suspended" /\ out[g] # << >>
        /\ out[g][1].ts = marked[1].ts /\ out[g][1].seq = marked[1].seq
        /\ out[g][1].id # marked[1].id

=============================================================================
